---- MODULE Spec2Model ----
(***************************************************************************)
(* Model of pilercr-parser (src/src/lib.rs).                               *)
(*                                                                         *)
(* A text is a sequence of one-character strings.  Every nom combinator    *)
(* the crate uses is an operator from a text to a result record            *)
(*   [tag, rest, val, site]                                                *)
(* with tag "Ok" (val parsed, rest left), "Error" (nom's Err::Error, the   *)
(* recoverable kind that many0/many1 swallow), "Failure" (Err::Failure)    *)
(* or "Panic" (the thread unwinds; site is the source line that panics).   *)
(*                                                                         *)
(* usize arithmetic is overflow-checked, as in the dev and test profiles:  *)
(* an execution that overflows ends in "Panic" at the line of the          *)
(* operation.  A build without overflow checks, where the same operation   *)
(* wraps modulo 2^64, is not modelled.                                     *)
(***************************************************************************)
EXTENDS Integers, Sequences, FiniteSets

\* ------------------------------------------------------------------ bounds
\* Rows per array block of the single-block documents.
MaxRows == 2
\* Array blocks per document of the multi-block documents.
MaxArrays == 2
\* 1-based position of the first row of a generated block.
FirstPos == 3

\* ------------------------------------------------------------- characters
NL == "\n"
SP == " "

DigitChars == <<"0", "1", "2", "3", "4", "5", "6", "7", "8", "9">>

IsDigit(c) == \E i \in 1..10 : DigitChars[i] = c

AlphaChars ==
  {"A", "B", "C", "D", "E", "F", "G", "H", "I", "J", "K", "L", "M", "N", "O",
   "P", "Q", "R", "S", "T", "U", "V", "W", "X", "Y", "Z",
   "a", "b", "c", "d", "e", "f", "g", "h", "i", "j", "k", "l", "m", "n", "o",
   "p", "q", "r", "s", "t", "u", "v", "w", "x", "y", "z"}

IsAlpha(c) == c \in AlphaChars

\* nom's multispace: space, tab, carriage return, line feed.
IsMultispace(c) == c \in {" ", "\t", "\r", "\n"}

\* char::is_whitespace, on the characters a text of the model can hold.
IsWhitespace(c) == c \in {" ", "\t", "\r", "\n"}

\* --------------------------------------------------------------- results
Ok(rest, val) == [tag |-> "Ok", rest |-> rest, val |-> val, site |-> ""]
Error(rest, kind) == [tag |-> "Error", rest |-> rest, val |-> kind, site |-> ""]
Failure(rest, kind) == [tag |-> "Failure", rest |-> rest, val |-> kind, site |-> ""]
Panic(site) == [tag |-> "Panic", rest |-> <<>>, val |-> "panic", site |-> site]

Drop(s, n) == SubSeq(s, n + 1, Len(s))
Take(s, n) == SubSeq(s, 1, n)

\* Length of the longest prefix of s whose characters all satisfy P.
SpanLen(P(_), s) ==
  Cardinality({i \in 1..Len(s) : \A j \in 1..i : P(s[j])})

\* The first n characters as the output, the others left.
split_at(input, n) == Ok(Drop(input, n), Take(input, n))

\* The same, where at least one character is required.
split_at1(input, n, kind) ==
  IF n = 0 THEN Error(input, kind) ELSE split_at(input, n)

\* ------------------------------------------------- primitive field readers
multispace0(input) == split_at(input, SpanLen(IsMultispace, input))

multispace1(input) == split_at1(input, SpanLen(IsMultispace, input), "MultiSpace")

digit0(input) == split_at(input, SpanLen(IsDigit, input))

digit1(input) == split_at1(input, SpanLen(IsDigit, input), "Digit")

alpha0(input) == split_at(input, SpanLen(IsAlpha, input))

IsNotWhitespace(c) == ~IsWhitespace(c)

\* split_at_position_complete(char::is_whitespace): up to the first whitespace
\* character, the whole input when there is none; never an error.
not_space(input) == split_at(input, SpanLen(IsNotWhitespace, input))

IsNotLineEnd(c) == c \notin {"\r", "\n"}

\* A "\r" at position n + 1 that no "\n" follows.
lone_cr(input, n) ==
  /\ n < Len(input)
  /\ input[n + 1] = "\r"
  /\ ~(n + 2 <= Len(input) /\ input[n + 2] = "\n")

not_line_ending_at(input, n) ==
  IF lone_cr(input, n) THEN Error(input, "Tag") ELSE split_at(input, n)

\* nom's not_line_ending: up to the first "\n" or "\r\n"; a "\r" that no "\n"
\* follows is an error; the whole input when it holds no line ending.
not_line_ending(input) == not_line_ending_at(input, SpanLen(IsNotLineEnd, input))

line_ending(input) ==
  IF Len(input) >= 1 /\ input[1] = "\n" THEN split_at(input, 1)
  ELSE IF Len(input) >= 2 /\ input[1] = "\r" /\ input[2] = "\n"
       THEN split_at(input, 2)
       ELSE Error(input, "CrLf")

tag(t, input) ==
  IF Len(input) >= Len(t) /\ Take(input, Len(t)) = t
  THEN Ok(Drop(input, Len(t)), t)
  ELSE Error(input, "Tag")

char(c, input) ==
  IF Len(input) >= 1 /\ input[1] = c THEN Ok(Drop(input, 1), c)
  ELSE Error(input, "Char")

\* nom's float, as far as recognising the text goes (its callers drop the
\* value): [+-]? (digit1 ('.' digit0)? | '.' digit1) ([eE] [+-]? digit1)?,
\* where an exponent mark that no digit follows is a Failure (cut).
StartsWithOneOf(s, chars) == Len(s) >= 1 /\ s[1] \in chars

sign_len(s) == IF StartsWithOneOf(s, {"+", "-"}) THEN 1 ELSE 0

\* Length of '.' digit0 at the start of s, 0 when s does not start with '.'.
fraction_len(s) ==
  IF StartsWithOneOf(s, {"."}) THEN 1 + SpanLen(IsDigit, Drop(s, 1)) ELSE 0

\* Length of the mantissa at the start of s, whose leading digits are ni.
mantissa_len(s, ni) ==
  IF ni > 0 THEN ni + fraction_len(Drop(s, ni))
  ELSE IF fraction_len(s) > 1 THEN fraction_len(s) ELSE 0

\* The exponent, at the start of s: its length, 0 when s starts with no
\* exponent mark, -1 when the mark is followed by no digit.
exponent_digits(s) == SpanLen(IsDigit, Drop(s, 1 + sign_len(Drop(s, 1))))

exponent_len(s) ==
  IF ~StartsWithOneOf(s, {"e", "E"}) THEN 0
  ELSE IF exponent_digits(s) = 0 THEN -1
  ELSE 1 + sign_len(Drop(s, 1)) + exponent_digits(s)

float_parts(input, sign, mant, exp) ==
  IF mant = 0 THEN Error(input, "Float")
  ELSE IF exp < 0 THEN Failure(Drop(input, sign + mant), "Digit")
  ELSE split_at(input, sign + mant + exp)

float_mantissa(input, sign, mant) ==
  float_parts(input, sign, mant, exponent_len(Drop(input, sign + mant)))

float_sign(input, sign) ==
  float_mantissa(input, sign,
                 mantissa_len(Drop(input, sign), SpanLen(IsDigit, Drop(input, sign))))

float(input) == float_sign(input, sign_len(input))

\* ------------------------------------------------------- usize conversions
\* usize::MAX on a 64-bit target, as decimal digits.
USIZE_MAX_DIGITS ==
  <<"1", "8", "4", "4", "6", "7", "4", "4", "0", "7", "3", "7", "0", "9", "5",
    "5", "1", "6", "1", "5">>

DigitVal(c) == (CHOOSE i \in 1..10 : DigitChars[i] = c) - 1

IsZeroChar(c) == c = "0"

\* a > b for two digit texts of the same length.
DigitsGreater(a, b) ==
  \E i \in 1..Len(a) :
    /\ \A j \in 1..(i - 1) : a[j] = b[j]
    /\ DigitVal(a[i]) > DigitVal(b[i])

RECURSIVE DigitsValue(_, _)
DigitsValue(ds, acc) ==
  IF ds = <<>> THEN acc ELSE DigitsValue(Tail(ds), acc * 10 + DigitVal(Head(ds)))

\* The digits without their leading zeros, as a usize.
significant_usize(sig) ==
  IF Len(sig) > Len(USIZE_MAX_DIGITS)
     \/ (Len(sig) = Len(USIZE_MAX_DIGITS) /\ DigitsGreater(sig, USIZE_MAX_DIGITS))
  THEN [tag |-> "Err", val |-> 0]
  ELSE [tag |-> "Ok", val |-> DigitsValue(sig, 0)]

\* str::parse::<usize>() on a text of digits: Err (PosOverflow) when the value
\* exceeds usize::MAX, Err (Empty) on the empty text.
parse_usize(ds) ==
  IF ds = <<>> THEN [tag |-> "Err", val |-> 0]
  ELSE significant_usize(Drop(ds, SpanLen(IsZeroChar, ds)))

\* unwrap() - 1 on the result p of a parse::<usize>(): unwrap panics on Err,
\* the checked subtraction panics on 0.
unwrap_minus_one(p, site) ==
  IF p.tag = "Err" \/ p.val < 1 THEN [tag |-> "Panic", val |-> 0, site |-> site]
  ELSE [tag |-> "Ok", val |-> p.val - 1, site |-> ""]

\* ---------------------------------------------------------------- tuples
\* tuple((p0, ..., pn)) is written and_then(pn, ... and_then(p0, begin(input))):
\* the parsers run in the order p0 .. pn (read the lines from the last one
\* up), each on what the one before left; the first that does not succeed
\* ends the tuple with its result.  val collects the outputs: val[k + 1] is
\* the source's data.k.
begin(input) == Ok(input, <<>>)

collect(r, q) == IF q.tag # "Ok" THEN q ELSE Ok(q.rest, Append(r.val, q.val))

and_then(P(_), r) == IF r.tag # "Ok" THEN r ELSE collect(r, P(r.rest))

\* Ok(remaining, ()) for a result whose output is dropped.
discard(r) == IF r.tag # "Ok" THEN r ELSE Ok(r.rest, <<>>)

\* ------------------------------------------------------------ line skippers
skip_one_line(input) ==
  discard(and_then(line_ending, and_then(not_line_ending, begin(input))))

skip_empty_line(input) == discard(line_ending(input))

skip_header(input) ==
  discard(
        and_then(skip_empty_line,
        and_then(skip_empty_line,
        and_then(skip_empty_line,
        and_then(skip_one_line,
        and_then(skip_empty_line,
        and_then(skip_empty_line,
        and_then(skip_empty_line,
        and_then(skip_one_line,
        and_then(skip_empty_line,
        and_then(skip_one_line,
        and_then(skip_one_line,
        begin(input)))))))))))))

\* ------------------------------------------------------- correction pass
\* raw.repeat_diff.chars().zip(consensus_repeat.chars())
zip(xs, ys) ==
  [i \in 1..(IF Len(xs) <= Len(ys) THEN Len(xs) ELSE Len(ys)) |-> <<xs[i], ys[i]>>]

\* A filter that keeps the gap positions (what C10 must tell from not_gap).
keep_gaps(p) == TRUE

\* .filter(|(r, _)| *r != '-')
not_gap(p) == p[1] # "-"

\* A map that always takes the consensus character (what C3 must tell from
\* pick).
pick_consensus(p) == p[2]

\* .map(|(r, c)| if r == '.' { c } else { r })
pick(p) == IF p[1] = "." THEN p[2] ELSE p[1]

map_pick(kept) == [i \in 1..Len(kept) |-> pick(kept[i])]

repeat_of(repeat_diff, consensus_repeat) ==
  map_pick(SelectSeq(zip(repeat_diff, consensus_repeat), not_gap))

\* raw.repeat_diff.matches('-').count()
gap_count_of(repeat_diff) ==
  Cardinality({i \in 1..Len(repeat_diff) : repeat_diff[i] = "-"})

\* A RepeatSpacer literal that leaves the offset of the earlier rows out of
\* start and end (what C1 must tell from repeat_spacer_of).
repeat_spacer_without_offset(raw, repeat, gap_count, total_gap_count) ==
  IF raw.end < gap_count THEN Panic("lib.rs:269")
  ELSE Ok(<<>>,
          [start |-> raw.start,
           end |-> raw.end - gap_count,
           repeat_start |-> raw.start,
           repeat_end |-> raw.start + Len(repeat),
           spacer_start |-> raw.start + Len(repeat),
           spacer_end |-> raw.end - gap_count,
           repeat |-> repeat,
           spacer |-> raw.spacer])

\* A RepeatSpacer literal whose repeat_end is measured on the diff pattern,
\* gap markers included (what C9 must tell from repeat_spacer_of).
repeat_spacer_with_diff_length(raw, repeat, gap_count, total_gap_count) ==
  IF raw.start < total_gap_count THEN Panic("lib.rs:268")
  ELSE IF raw.end < total_gap_count \/ raw.end - total_gap_count < gap_count
       THEN Panic("lib.rs:269")
       ELSE Ok(<<>>,
               [start |-> raw.start - total_gap_count,
                end |-> raw.end - total_gap_count - gap_count,
                repeat_start |-> raw.start - total_gap_count,
                repeat_end |-> raw.start - total_gap_count + Len(raw.repeat_diff),
                spacer_start |-> raw.start - total_gap_count + Len(repeat),
                spacer_end |-> raw.end - total_gap_count - gap_count,
                repeat |-> repeat,
                spacer |-> raw.spacer])

\* The RepeatSpacer literal of one row; the fields are evaluated in the order
\* written, so the first subtraction that overflows is the one that panics.
repeat_spacer_of(raw, repeat, gap_count, total_gap_count) ==
  IF raw.start < total_gap_count THEN Panic("lib.rs:268")
  ELSE IF raw.end < total_gap_count \/ raw.end - total_gap_count < gap_count
       THEN Panic("lib.rs:269")
       ELSE Ok(<<>>,
               [start |-> raw.start - total_gap_count,
                end |-> raw.end - total_gap_count - gap_count,
                repeat_start |-> raw.start - total_gap_count,
                repeat_end |-> raw.start - total_gap_count + Len(repeat),
                spacer_start |-> raw.start - total_gap_count + Len(repeat),
                spacer_end |-> raw.end - total_gap_count - gap_count,
                repeat |-> repeat,
                spacer |-> raw.spacer])

\* One pass of the for loop over row raw: the assertion, then the row's
\* RepeatSpacer.
convert_row(consensus_repeat, raw, total_gap_count) ==
  IF Len(raw.repeat_diff) # Len(consensus_repeat) THEN Panic("lib.rs:258")
  ELSE repeat_spacer_of(raw, repeat_of(raw.repeat_diff, consensus_repeat),
                        gap_count_of(raw.repeat_diff), total_gap_count)

\* The for loop from row i on, output holding the rows converted so far.
RECURSIVE convert_rows(_, _, _, _, _)
\* A loop step that forgets total_gap_count += gap_count (what C2 must tell
\* from push_and_continue).
push_without_accumulating(consensus_repeat, raw_repeat_spacers, i, total_gap_count, output, rs) ==
  IF rs.tag # "Ok" THEN rs
  ELSE convert_rows(consensus_repeat, raw_repeat_spacers, i + 1, total_gap_count,
                    Append(output, rs.val))

\* output.push(rs); total_gap_count += gap_count
push_and_continue(consensus_repeat, raw_repeat_spacers, i, total_gap_count, output, rs) ==
  IF rs.tag # "Ok" THEN rs
  ELSE convert_rows(consensus_repeat, raw_repeat_spacers, i + 1,
                    total_gap_count + gap_count_of(raw_repeat_spacers[i].repeat_diff),
                    Append(output, rs.val))

convert_rows(consensus_repeat, raw_repeat_spacers, i, total_gap_count, output) ==
  IF i > Len(raw_repeat_spacers) THEN Ok(<<>>, output)
  ELSE push_and_continue(consensus_repeat, raw_repeat_spacers, i, total_gap_count, output,
                         convert_row(consensus_repeat, raw_repeat_spacers[i],
                                     total_gap_count))

convert_raw_rs_to_final_rs(consensus_repeat, raw_repeat_spacers) ==
  convert_rows(consensus_repeat, raw_repeat_spacers, 1, 0, <<>>)

\* ---------------------------------------------------------------- grammar
\* The end of a raw row: start + repeat_diff.len() + spacer.len().
raw_end(start, repeat_diff, spacer) == start + Len(repeat_diff) + Len(spacer)

\* The Ok arm of parse_raw_repeat_spacer: data is the tuple's output, start
\* the result of data.1.parse::<usize>().unwrap() - 1.
raw_repeat_spacer_of(remainder, data, start) ==
  IF start.tag = "Panic" THEN Panic(start.site)
  ELSE Ok(remainder,
          [start |-> start.val,
           end |-> raw_end(start.val, data[12], data[14]),
           repeat_diff |-> data[12],
           spacer |-> data[14]])

raw_row_result(result) ==
  IF result.tag # "Ok" THEN result
  ELSE raw_repeat_spacer_of(result.rest, result.val,
                            unwrap_minus_one(parse_usize(result.val[2]), "lib.rs:152"))

parse_raw_repeat_spacer(input) ==
  raw_row_result(
        and_then(alpha0,                            \* data.13: spacer
        and_then(multispace1,                       \* data.12
        and_then(not_space,                         \* data.11: repeat_diff
        and_then(multispace1,                       \* data.10
        and_then(alpha0,                            \* data.9
        and_then(multispace0,                       \* data.8
        and_then(digit0,                            \* data.7
        and_then(multispace1,                       \* data.6
        and_then(float,                             \* data.5
        and_then(multispace1,                       \* data.4
        and_then(digit1,                            \* data.3
        and_then(multispace1,                       \* data.2
        and_then(digit1,                            \* data.1: pos
        and_then(multispace0,                       \* data.0
        begin(input))))))))))))))))

summary_result(result) ==
  IF result.tag # "Ok" THEN result ELSE Ok(result.rest, result.val[8])

parse_array_summary_line(input) ==
  summary_result(
        and_then(line_ending,                       \* data.8
        and_then(not_space,                         \* data.7: consensus
        and_then(multispace1,                       \* data.6
        and_then(digit1,                            \* data.5
        and_then(multispace1,                       \* data.4
        and_then(digit1,                            \* data.3
        and_then(multispace1,                       \* data.2
        and_then(digit1,                            \* data.1
        and_then(multispace0,                       \* data.0
        begin(input)))))))))))

\* many1(parse_raw_repeat_spacer), with the rows parsed so far: a recoverable
\* error of the row parser ends the repetition, which fails if it has no row.
RECURSIVE many1_rows(_, _)
many1_next(input, acc, r) ==
  IF r.tag = "Error"
  THEN (IF acc = <<>> THEN Error(input, "Many1") ELSE Ok(input, acc))
  ELSE IF r.tag # "Ok" THEN r
  ELSE IF acc # <<>> /\ Len(r.rest) = Len(input) THEN Error(input, "Many1")
  ELSE many1_rows(r.rest, Append(acc, r.val))

many1_rows(input, acc) == many1_next(input, acc, parse_raw_repeat_spacer(input))

many1_parse_raw_repeat_spacer(input) == many1_rows(input, <<>>)

tag_Array(input) == tag(<<"A", "r", "r", "a", "y", " ">>, input)

char_gt(input) == char(">", input)

\* Array.start and Array.end, from the corrected rows.
array_start(repeat_spacers) == repeat_spacers[1].start
\* An end taken from the first row (what C4 must tell from array_end).
array_end_of_first(repeat_spacers) == repeat_spacers[1].end
array_end(repeat_spacers) == repeat_spacers[Len(repeat_spacers)].end

\* What parse_array hands back: besides nom's result, the raw rows and the
\* consensus the grammar extracted (data.9 and data.12), for the record.
array_result(tag_, rest_, val, site, raws, consensus) ==
  [tag |-> tag_, rest |-> rest_, val |-> val, site |-> site,
   raws |-> raws, consensus |-> consensus]

\* The Ok arm of parse_array, from let order on.
array_of(remainder, data, order, repeat_spacers) ==
  IF order.tag = "Panic"
  THEN array_result("Panic", <<>>, "panic", order.site, <<>>, <<>>)
  ELSE IF repeat_spacers.tag = "Panic"
  THEN array_result("Panic", <<>>, "panic", repeat_spacers.site, data[10], data[13])
  ELSE array_result("Ok", remainder,
                    [start |-> array_start(repeat_spacers.val),
                     end |-> array_end(repeat_spacers.val),
                     order |-> order.val,
                     accession |-> data[5],
                     consensus_repeat_sequence |-> data[13],
                     repeat_spacers |-> repeat_spacers.val],
                    "", data[10], data[13])

array_block_result(result) ==
  IF result.tag # "Ok"
  THEN array_result(result.tag, result.rest, result.val, result.site, <<>>, <<>>)
  ELSE array_of(result.rest, result.val,
                unwrap_minus_one(parse_usize(result.val[2]), "lib.rs:225"),
                convert_raw_rs_to_final_rs(result.val[13], result.val[10]))

parse_array(input) ==
  array_block_result(
        and_then(skip_empty_line,                   \* data.14
        and_then(skip_empty_line,                   \* data.13
        and_then(parse_array_summary_line,          \* data.12: consensus
        and_then(skip_one_line,                     \* data.11
        and_then(skip_one_line,                     \* data.10
        and_then(many1_parse_raw_repeat_spacer,     \* data.9: raw rows
        and_then(skip_one_line,                     \* data.8
        and_then(skip_one_line,                     \* data.7
        and_then(skip_empty_line,                   \* data.6
        and_then(line_ending,                       \* data.5
        and_then(not_space,                         \* data.4: accession
        and_then(char_gt,                           \* data.3
        and_then(line_ending,                       \* data.2
        and_then(digit1,                            \* data.1: order
        and_then(tag_Array,                         \* data.0
        begin(input)))))))))))))))))

\* ------------------------------------------------- reports given to parse
\* A report is described by [header, blocks]; a block by [order, consensus,
\* summary, rows]; a row by [pos, diff, spacer].  The text handed to parse is
\* the description written out in the layout of the tool (the fixtures of
\* test_parse_array and test_parse_array_with_gaps), columns one space wide.
RECURSIVE ToDigits(_)
ToDigits(n) ==
  IF n < 10 THEN <<DigitChars[n + 1]>>
  ELSE ToDigits(n \div 10) \o <<DigitChars[(n % 10) + 1]>>

\* One data row.  The tool leaves the spacer-length column of the last row
\* blank; a row without spacer ends after its diff pattern.
RenderRow(row, final) ==
  <<" ">> \o row.pos \o <<" ">> \o ToDigits(Len(row.diff)) \o <<" ", "9", "2", ".", "5">>
  \o (IF final THEN <<" ", " ">> ELSE <<" ">> \o ToDigits(Len(row.spacer)) \o <<" ">>)
  \o <<"A", " ", " ">> \o row.diff
  \o (IF row.spacer = <<>> THEN <<>> ELSE <<" ", " ">> \o row.spacer)

RECURSIVE RenderRows(_, _)
RenderRows(rows, i) ==
  IF i > Len(rows) THEN <<>>
  ELSE RenderRow(rows[i], i = Len(rows)) \o <<NL>> \o RenderRows(rows, i + 1)

RenderSummary(block) ==
  <<" ">> \o ToDigits(Len(block.rows)) \o <<" ">> \o ToDigits(Len(block.consensus))
  \o <<" ", " ", "1", " ", " ">> \o block.consensus \o <<NL>>

RenderBlock(block) ==
  <<"A", "r", "r", "a", "y", " ">> \o block.order \o <<NL>>
  \o <<">", "c", "t", "g", NL>>
  \o <<NL>>
  \o <<"P", "o", "s", NL>>
  \o <<"=", "=", NL>>
  \o RenderRows(block.rows, 1)
  \o <<"=", "=", NL>>
  \o (IF block.summary THEN RenderSummary(block) ELSE <<>>)
  \o <<NL, NL>>

RECURSIVE RenderBlocks(_, _)
RenderBlocks(blocks, i) ==
  IF i > Len(blocks) THEN <<>>
  ELSE RenderBlock(blocks[i]) \o RenderBlocks(blocks, i + 1)

\* The 11 lines skip_header expects; a report with header = FALSE has text on
\* the third line, which must be empty.
RenderHeader(valid) ==
  <<"h", NL, "h", NL>> \o (IF valid THEN <<NL>> ELSE <<"x", NL>>)
  \o <<"h", NL, NL, NL, NL, "h", NL, NL, NL, NL>>

RenderDoc(d) == RenderHeader(d.header) \o RenderBlocks(d.blocks, 1)

Diffs == {<<".", ".">>, <<"-", "G">>, <<"-", "-">>}
Spacers == {<<>>, <<"T">>}
Consensus2 == <<"A", "C">>

\* A row is placed where the previous row's printed span ends ("chained", as
\* the tool prints them) or back at position 1 ("restart").
RowChoices == [mode : {"chained", "restart"}, diff : Diffs, spacer : Spacers]

PlanPos(choice, next_pos) == IF choice.mode = "chained" THEN next_pos ELSE 1

RECURSIVE RowsOfPlan(_, _, _)
RowsOfPlan(plan, i, next_pos) ==
  IF i > Len(plan) THEN <<>>
  ELSE <<[pos |-> ToDigits(PlanPos(plan[i], next_pos)),
          diff |-> plan[i].diff, spacer |-> plan[i].spacer]>>
       \o RowsOfPlan(plan, i + 1,
                     PlanPos(plan[i], next_pos) + Len(plan[i].diff) + Len(plan[i].spacer))

Plans == UNION {[1..n -> RowChoices] : n \in 1..MaxRows}

Block(order, consensus, rows) ==
  [order |-> order, consensus |-> consensus, summary |-> TRUE, rows |-> rows]

\* Reports of one block, every plan of up to MaxRows rows.
SingleBlockDocs ==
  {[header |-> TRUE,
    blocks |-> <<Block(<<"1">>, Consensus2, RowsOfPlan(plan, 1, FirstPos))>>] :
     plan \in Plans}

Chained(diff, spacer) == [mode |-> "chained", diff |-> diff, spacer |-> spacer]

\* The block of test_parse_array_with_gaps.
FixtureConsensus ==
  <<"A", "A", "G", "T", "T", "T", "C", "C", "G", "T", "C", "C", "C", "C", "T", "T",
    "T", "C", "G", "G", "G", "G", "A", "A", "T", "C", "A", "T", "T", "T", "A", "G",
    "A", "A", "A", "A", "T", "-", "-", "A">>
FixtureDiff1 ==
  <<".", ".", "A", ".", ".", ".", ".", ".", ".", ".", ".", ".", ".", ".", ".", ".",
    ".", ".", ".", ".", ".", ".", ".", ".", ".", ".", ".", ".", ".", ".", ".", ".",
    ".", ".", ".", ".", ".", "C", "C", ".">>
FixtureDiff2 ==
  <<".", ".", ".", ".", ".", ".", ".", ".", ".", ".", ".", ".", ".", ".", ".", ".",
    ".", ".", ".", ".", ".", ".", ".", ".", ".", ".", ".", ".", ".", ".", ".", ".",
    ".", ".", ".", ".", ".", "-", "-", "-">>
FixtureDiff3 ==
  <<"G", "G", ".", ".", ".", ".", ".", ".", ".", ".", ".", ".", ".", ".", "-", ".",
    ".", ".", ".", ".", ".", ".", ".", ".", ".", ".", ".", ".", ".", ".", ".", ".",
    ".", ".", ".", ".", ".", "-", "-", ".">>
FixtureRepeat3 ==
  <<"G", "G", "G", "T", "T", "T", "C", "C", "G", "T", "C", "C", "C", "C", "T", "T",
    "C", "G", "G", "G", "G", "A", "A", "T", "C", "A", "T", "T", "T", "A", "G", "A",
    "A", "A", "A", "T", "A">>
FixtureBlock ==
  [order |-> <<"1", "8">>, consensus |-> FixtureConsensus, summary |-> TRUE,
   rows |-> <<[pos |-> <<"3", "8", "3", "2">>, diff |-> FixtureDiff1,
               spacer |-> <<"G", "A", "A", "T">>],
              [pos |-> <<"3", "8", "7", "6">>, diff |-> FixtureDiff2,
               spacer |-> <<"T", "G", "T">>],
              [pos |-> <<"3", "9", "1", "9">>, diff |-> FixtureDiff3,
               spacer |-> <<"A", "T">>]>>]

\* Blocks the reports of several blocks are made of: with gaps, without, with
\* the last row's spacer missing, and cut short before the summary row.
GapBlock ==
  Block(<<"1">>, Consensus2,
        RowsOfPlan(<<Chained(<<"-", "G">>, <<"T">>), Chained(<<".", "-">>, <<"T">>)>>,
                   1, FirstPos))
PlainBlock ==
  Block(<<"2">>, Consensus2, RowsOfPlan(<<Chained(<<".", ".">>, <<"T">>)>>, 1, FirstPos))
NoFinalSpacerBlock ==
  Block(<<"3">>, Consensus2,
        RowsOfPlan(<<Chained(<<"G", ".">>, <<"T">>), Chained(<<".", ".">>, <<>>)>>,
                   1, FirstPos))
CutShortBlock ==
  [order |-> <<"4">>, consensus |-> Consensus2, summary |-> FALSE,
   rows |-> RowsOfPlan(<<Chained(<<".", ".">>, <<"T">>)>>, 1, FirstPos)]

SmallBlocks == {GapBlock, PlainBlock, NoFinalSpacerBlock, CutShortBlock}

MultiBlockDocs ==
  {[header |-> h, blocks |-> bs] :
     h \in BOOLEAN, bs \in UNION {[1..n -> SmallBlocks] : n \in 0..MaxArrays}}

\* Digits beyond the width of usize (21 digits).
HugeDigits ==
  <<"9", "9", "9", "9", "9", "9", "9", "9", "9", "9", "9", "9", "9", "9", "9",
    "9", "9", "9", "9", "9", "9">>

NumberTexts == {<<"0">>, <<"0", "0", "7">>, <<"1", "2">>, HugeDigits, USIZE_MAX_DIGITS}

\* Reports whose position field or "Array N" marker holds an unusual number.
NumericDocs ==
  {[header |-> TRUE,
    blocks |-> <<Block(order, Consensus2,
                       <<[pos |-> pos, diff |-> <<".", "G">>, spacer |-> <<"T">>]>>)>>] :
     order \in NumberTexts \ {USIZE_MAX_DIGITS}, pos \in NumberTexts \ {USIZE_MAX_DIGITS}}

\* Reports with a row whose diff pattern is shorter or longer than the
\* consensus, and reports whose consensus holds gap characters.
OddDiffs == {<<".">>, <<".", "-", ".">>, <<".", ".">>}
OddConsensus == {<<"A", "C">>, <<"A", "-">>, <<"A", "C", "G">>}
LengthDocs ==
  {[header |-> TRUE,
    blocks |-> <<Block(<<"1">>, consensus,
                       RowsOfPlan(<<Chained(<<".", "-">>, <<"T">>), Chained(diff, spacer)>>,
                                  1, FirstPos))>>] :
     consensus \in OddConsensus, diff \in OddDiffs, spacer \in {<<"T">>}}

Documents ==
  SingleBlockDocs \cup MultiBlockDocs \cup NumericDocs \cup LengthDocs
  \cup {[header |-> TRUE, blocks |-> <<FixtureBlock>>]}

\* ------------------------------------------------------------------ state
VARIABLES
  doc,       \* the report handed to parse, as described above
  pc,        \* where parse is: "skip_header", "many0" or "done"
  rest,      \* the input not consumed yet
  arrays,    \* the arrays many0 has collected
  raw_rows,  \* per parse_array call whose grammar matched: [consensus, rows]
  result     \* what parse returns: [tag, site]; tag "none" while it runs

vars == <<doc, pc, rest, arrays, raw_rows, result>>

Init ==
  /\ doc \in Documents
  /\ pc = "skip_header"
  /\ rest = RenderDoc(doc)
  /\ arrays = <<>>
  /\ raw_rows = <<>>
  /\ result = [tag |-> "none", site |-> ""]

\* parse, first element of the tuple: the header.
HeaderSkipped(r) ==
  IF r.tag = "Ok"
  THEN /\ pc' = "many0"
       /\ rest' = r.rest
       /\ result' = result
  ELSE /\ pc' = "done"
       /\ rest' = rest
       /\ result' = [tag |-> "Err", site |-> ""]

SkipHeader ==
  /\ pc = "skip_header"
  /\ HeaderSkipped(skip_header(rest))
  /\ UNCHANGED <<doc, arrays, raw_rows>>

\* many0(parse_array): parse_array succeeds and the array is pushed.  An Ok
\* that consumed nothing would be many0's own error.
Pushed(r) ==
  /\ r.tag = "Ok"
  /\ raw_rows' = Append(raw_rows, [consensus |-> r.consensus, rows |-> r.raws])
  /\ IF Len(r.rest) = Len(rest)
     THEN /\ pc' = "done"
          /\ result' = [tag |-> "Err", site |-> ""]
          /\ UNCHANGED <<rest, arrays>>
     ELSE /\ pc' = "many0"
          /\ rest' = r.rest
          /\ arrays' = Append(arrays, r.val)
          /\ result' = result

Many0Push ==
  /\ pc = "many0"
  /\ Pushed(parse_array(rest))
  /\ UNCHANGED doc

\* many0(parse_array): a recoverable error of parse_array ends the repetition
\* and parse returns Ok with the arrays collected; a Failure is returned as Err.
Stopped(r) ==
  /\ r.tag \in {"Error", "Failure"}
  /\ result' = [tag |-> IF r.tag = "Error" THEN "Ok" ELSE "Err", site |-> ""]

Many0Stop ==
  /\ pc = "many0"
  /\ Stopped(parse_array(rest))
  /\ pc' = "done"
  /\ UNCHANGED <<doc, rest, arrays, raw_rows>>

\* A panic inside parse_array unwinds through parse.
Panicked(r) ==
  /\ r.tag = "Panic"
  /\ result' = [tag |-> "Panic", site |-> r.site]
  /\ raw_rows' = IF r.raws = <<>> THEN raw_rows
                 ELSE Append(raw_rows, [consensus |-> r.consensus, rows |-> r.raws])

Many0Panic ==
  /\ pc = "many0"
  /\ Panicked(parse_array(rest))
  /\ pc' = "done"
  /\ UNCHANGED <<doc, rest, arrays>>

Next == SkipHeader \/ Many0Push \/ Many0Stop \/ Many0Panic

Spec == Init /\ [][Next]_vars

\* ----------------------------------------------------------- properties
\* Number of gap markers in a diff pattern.
GapMarkers(diff) == Cardinality({j \in 1..Len(diff) : diff[j] = "-"})

\* Number of gap markers in the diff patterns of the rows before row i.
RECURSIVE GapsBefore(_, _)
GapsBefore(rows, i) ==
  IF i <= 1 THEN 0
  ELSE GapsBefore(rows, i - 1) + GapMarkers(rows[i - 1].repeat_diff)

\* The walk over the positions in order: a position is dropped where the diff
\* holds '-', gives the consensus character where it holds '.', and the diff
\* character otherwise.
RECURSIVE Walk(_, _, _)
Walk(diff, consensus, i) ==
  IF i > Len(diff) THEN <<>>
  ELSE (IF diff[i] = "-" THEN <<>>
        ELSE IF diff[i] = "." THEN <<consensus[i]>>
        ELSE <<diff[i]>>)
       \o Walk(diff, consensus, i + 1)

\* The arrays returned so far, and the rows of array k: the raw row the
\* grammar read and the repeat-spacer the correction pass made of it.
ArrayIndices == 1..Len(arrays)
RowIndices(k) == 1..Len(arrays[k].repeat_spacers)
RawRow(k, i) == raw_rows[k].rows[i]
FinalRow(k, i) == arrays[k].repeat_spacers[i]

RowsChain(k) ==
  \A i \in 1..(Len(raw_rows[k].rows) - 1) : RawRow(k, i + 1).start = RawRow(k, i).end

BeginsWithArrayMarker(input) ==
  Len(input) >= 6 /\ SubSeq(input, 1, 6) = <<"A", "r", "r", "a", "y", " ">>

\* C1: for every row i of an array, the corrected start is raw.start minus the
\* number of gap markers in the diff patterns of rows 0..i-1 of the same array,
\* and the corrected end is raw.end minus that offset minus the gap markers of
\* row i itself; the offset is 0 for the first row of every array and never
\* decreases from one row to the next.
C1_CorrectedOffsets ==
  \A k \in ArrayIndices :
    /\ Len(arrays[k].repeat_spacers) = Len(raw_rows[k].rows)
    /\ FinalRow(k, 1).start = RawRow(k, 1).start
    /\ \A i \in RowIndices(k) :
         /\ FinalRow(k, i).start = RawRow(k, i).start - GapsBefore(raw_rows[k].rows, i)
         /\ FinalRow(k, i).end =
              RawRow(k, i).end - GapsBefore(raw_rows[k].rows, i)
                - GapMarkers(RawRow(k, i).repeat_diff)
         /\ i > 1 =>
              RawRow(k, i).start - FinalRow(k, i).start
                >= RawRow(k, i - 1).start - FinalRow(k, i - 1).start

\* A second array whose first row is not shifted although the first array
\* held gap markers, and whose second row is shifted by its own first row.
C1_Witness ==
  /\ Len(arrays) = 2
  /\ GapsBefore(raw_rows[1].rows, Len(raw_rows[1].rows) + 1) > 0
  /\ Len(arrays[2].repeat_spacers) >= 2
  /\ GapsBefore(raw_rows[2].rows, 2) > 0
  /\ GapMarkers(RawRow(2, 2).repeat_diff) > 0
  /\ FinalRow(2, 1).start = RawRow(2, 1).start
  /\ FinalRow(2, 2).start < RawRow(2, 2).start

\* C2: in every array whose raw rows chain (raw[i+1].start = raw[i].end for
\* each consecutive pair), the corrected rows chain: row[i].end =
\* row[i+1].start for each consecutive pair, whatever the gap markers.
C2_CorrectedRowsChain ==
  \A k \in ArrayIndices :
    RowsChain(k) =>
      \A i \in 1..(Len(arrays[k].repeat_spacers) - 1) :
        FinalRow(k, i).end = FinalRow(k, i + 1).start

\* An array of three chained rows, the second and the third with gap markers.
C2_Witness ==
  \E k \in ArrayIndices :
    /\ Len(arrays[k].repeat_spacers) = 3
    /\ RowsChain(k)
    /\ GapMarkers(RawRow(k, 2).repeat_diff) > 0
    /\ GapMarkers(RawRow(k, 3).repeat_diff) > 0
    /\ FinalRow(k, 2).end = FinalRow(k, 3).start
    /\ FinalRow(k, 2).end < RawRow(k, 2).end

\* C3: for a diff pattern and a consensus of equal length, the reconstructed
\* repeat is the walk over the positions in order that drops a position whose
\* diff character is '-', emits the consensus character where the diff holds
\* '.', and the diff character otherwise; the consensus
\* AAGTTTCCGTCCCCTTTCGGGGAATCATTTAGAAAAT--A with the diff
\* GG............-......................--. gives
\* GGGTTTCCGTCCCCTTCGGGGAATCATTTAGAAAATA.
C3_RepeatReconstruction ==
  /\ \A k \in ArrayIndices : \A i \in RowIndices(k) :
       Len(RawRow(k, i).repeat_diff) = Len(raw_rows[k].consensus) =>
         FinalRow(k, i).repeat = Walk(RawRow(k, i).repeat_diff, raw_rows[k].consensus, 1)
  /\ \A k \in ArrayIndices : \A i \in RowIndices(k) :
       (raw_rows[k].consensus = FixtureConsensus
          /\ RawRow(k, i).repeat_diff = FixtureDiff3) =>
         FinalRow(k, i).repeat = FixtureRepeat3

\* The row of the example, and a row with a substitution, a gap and a match.
C3_Witness ==
  /\ \E k \in ArrayIndices : \E i \in RowIndices(k) :
       /\ raw_rows[k].consensus = FixtureConsensus
       /\ RawRow(k, i).repeat_diff = FixtureDiff3
       /\ FinalRow(k, i).repeat = FixtureRepeat3
       /\ Len(FinalRow(k, i).repeat) = 37
  /\ \E k \in ArrayIndices : \E i \in RowIndices(k) :
       /\ RawRow(k, i).repeat_diff = FixtureDiff1
       /\ FinalRow(k, i).repeat[3] = "A"
       /\ FinalRow(k, i).repeat[4] = "T"

\* C4: every Array returned has start equal to the corrected start of its
\* first repeat-spacer and end equal to the corrected end of its last one.
C4_ArraySpan ==
  \A k \in ArrayIndices :
    /\ arrays[k].start = arrays[k].repeat_spacers[1].start
    /\ arrays[k].end = arrays[k].repeat_spacers[Len(arrays[k].repeat_spacers)].end

\* A returned array of several rows, whose last row ends after the first.
C4_Witness ==
  /\ pc = "done"
  /\ result.tag = "Ok"
  /\ \E k \in ArrayIndices :
       /\ Len(arrays[k].repeat_spacers) >= 2
       /\ arrays[k].repeat_spacers[1].end
            # arrays[k].repeat_spacers[Len(arrays[k].repeat_spacers)].end
       /\ arrays[k].end = arrays[k].repeat_spacers[Len(arrays[k].repeat_spacers)].end
       /\ arrays[k].start < arrays[k].end

\* C5: when a row's diff pattern length differs from the consensus length,
\* the process is not aborted and no truncated repeat is produced: parse
\* reports a recoverable error (FormatError::LengthMismatch) to the caller.
LengthMismatch ==
  \E k \in 1..Len(raw_rows) : \E i \in 1..Len(raw_rows[k].rows) :
    Len(raw_rows[k].rows[i].repeat_diff) # Len(raw_rows[k].consensus)

C5_LengthMismatchReported ==
  (pc = "done" /\ LengthMismatch) => result.tag = "Err"

\* C6: for a report with a valid header, parse returns the arrays in report
\* order, one per array block; when a block that begins with the "Array "
\* marker fails at a later step, parse returns that failure, not the arrays
\* of the blocks before it.
C6_FirstFailureReturned ==
  (pc = "done" /\ doc.header /\ result.tag = "Ok") =>
    /\ ~BeginsWithArrayMarker(rest)
    /\ Len(arrays) = Len(doc.blocks)
    /\ \A k \in ArrayIndices : arrays[k].order + 1 = DigitsValue(doc.blocks[k].order, 0)

\* C7: an array block whose final data row ends after the diff pattern (no
\* spacer length, no spacer sequence) is parsed without error: the last
\* repeat-spacer has an empty spacer, and the separator and the summary row
\* that follow are consumed as such, so the consensus is extracted.
FirstBlockEndsWithoutSpacer ==
  /\ doc.header
  /\ Len(doc.blocks) >= 1
  /\ doc.blocks[1].summary
  /\ doc.blocks[1].rows[Len(doc.blocks[1].rows)].spacer = <<>>

C7_FinalRowWithoutSpacer ==
  (pc = "done" /\ FirstBlockEndsWithoutSpacer /\ result.tag # "Panic") =>
    /\ result.tag = "Ok"
    /\ Len(arrays) >= 1
    /\ arrays[1].consensus_repeat_sequence = doc.blocks[1].consensus
    /\ Len(arrays[1].repeat_spacers) = Len(doc.blocks[1].rows)
    /\ arrays[1].repeat_spacers[Len(arrays[1].repeat_spacers)].spacer = <<>>

\* C8: for every digit-only text in a row's position field or in the
\* "Array N" marker, "0" and values beyond the width of usize included,
\* parsing never aborts the process: the conversions at lib.rs:152 and
\* lib.rs:225 never panic.
C8_NumericFieldsNeverAbort ==
  ~(result.tag = "Panic" /\ result.site \in {"lib.rs:152", "lib.rs:225"})

\* C9: every RepeatSpacer produced by the correction pass has repeat_start =
\* start, repeat_end = repeat_start + len(repeat), spacer_start = repeat_end
\* and spacer_end = end.
C9_SubSpans ==
  \A k \in ArrayIndices : \A i \in RowIndices(k) :
    /\ FinalRow(k, i).repeat_start = FinalRow(k, i).start
    /\ FinalRow(k, i).repeat_end = FinalRow(k, i).repeat_start + Len(FinalRow(k, i).repeat)
    /\ FinalRow(k, i).spacer_start = FinalRow(k, i).repeat_end
    /\ FinalRow(k, i).spacer_end = FinalRow(k, i).end

\* A row after a row with gap markers, itself with gap markers, so that its
\* repeat is shorter than its diff pattern.
C9_Witness ==
  \E k \in ArrayIndices : \E i \in RowIndices(k) :
    /\ GapsBefore(raw_rows[k].rows, i) > 0
    /\ 0 < Len(FinalRow(k, i).repeat)
    /\ Len(FinalRow(k, i).repeat) < Len(RawRow(k, i).repeat_diff)
    /\ FinalRow(k, i).repeat_end = FinalRow(k, i).start + Len(FinalRow(k, i).repeat)
    /\ FinalRow(k, i).spacer_start < FinalRow(k, i).spacer_end

\* C10: for every repeat-spacer built from a row of the raw-row extractor
\* (raw.end = raw.start + len(repeat_diff) + len(spacer)) whose diff pattern
\* has the consensus length, spacer_end - spacer_start = len(spacer), for any
\* number of gap markers in the row and in the rows before it; hence
\* spacer_start <= spacer_end.
C10_SpacerSpan ==
  \A k \in ArrayIndices : \A i \in RowIndices(k) :
    (/\ RawRow(k, i).end
          = RawRow(k, i).start + Len(RawRow(k, i).repeat_diff) + Len(RawRow(k, i).spacer)
     /\ Len(RawRow(k, i).repeat_diff) = Len(raw_rows[k].consensus)) =>
      /\ FinalRow(k, i).spacer_end - FinalRow(k, i).spacer_start = Len(FinalRow(k, i).spacer)
      /\ FinalRow(k, i).spacer_start <= FinalRow(k, i).spacer_end

\* A row with a spacer, gap markers of its own and gap markers before it, and
\* a row with an empty spacer.
C10_Witness ==
  /\ \E k \in ArrayIndices : \E i \in RowIndices(k) :
       /\ GapsBefore(raw_rows[k].rows, i) > 0
       /\ GapMarkers(RawRow(k, i).repeat_diff) > 0
       /\ Len(FinalRow(k, i).spacer) > 0
       /\ FinalRow(k, i).spacer_end - FinalRow(k, i).spacer_start
            = Len(FinalRow(k, i).spacer)
  /\ \E k \in ArrayIndices : \E i \in RowIndices(k) :
       /\ RawRow(k, i).end = RawRow(k, i).start + Len(RawRow(k, i).repeat_diff)
       /\ FinalRow(k, i).spacer_start = FinalRow(k, i).spacer_end

====
